---- MODULE Spec2Model ----
(***************************************************************************)
(* checkyoself: fingerprint every file under a directory and reconcile the *)
(* result against a stored snapshot (src/src/main.rs).                     *)
(*                                                                         *)
(* The specifications share the variables below:                             *)
(*   Spec      one call of verify_and_update, one loop iteration per step  *)
(*   SpecScan  one call of hash_files_parallel, one worker step per step   *)
(*   SpecMain  one run of main, with the steps of verify_and_update        *)
(*   FairScan  SpecScan under weak fairness of the workers' steps          *)
(* A String key of a HashMap is a TLA+ string in Spec; in SpecScan, where  *)
(* the PathBuf -> String conversion matters, a path is a sequence of bytes *)
(* and a key a sequence of code points.                                    *)
(***************************************************************************)
EXTENDS Integers, Sequences, FiniteSets, TLC

\* ---------------------------------------------------------------- bounds
\* Most files the scan of the reconciled directory finds.
MaxFiles == 2

\* ------------------------------------------------------- input alphabets
\* Keys (String) the stored snapshot may hold.
RefPaths == {"A", "B"}
\* Keys (String) of either map: the scan may find a path the snapshot lacks.
Paths == RefPaths \cup {"C"}
\* FileMeta.hash values.
Digests == {"hx", "hy"}
\* FileMeta.modified values (u64 seconds).
Times == {1, 2}
\* FileMeta.size values (i64 bytes); 0 is the empty file.
Sizes == {0, 1}

\* struct FileMeta
FileMeta == [hash : Digests, modified : Times, size : Sizes]

\* HashMap<String, FileMeta> with keys in S
FileHashMap(S) == UNION {[D -> FileMeta] : D \in SUBSET S}

\* The maps hash_files_parallel may hand to verify_and_update.
CurrentMaps == {m \in FileHashMap(Paths) : Cardinality(DOMAIN m) <= MaxFiles}

\* The maps serde_json may load from reference_file.
ReferenceMaps == FileHashMap(RefPaths)

\* The empty HashMap / empty Vec.
EmptyMap == <<>>

VARIABLES
    \* ---- verify_and_update
    pc,                 \* "start" | "loop" | "done" | "print_panic" | "write_panic"
    current,            \* &HashMap<String, FileMeta>
    reference,          \* &mut HashMap<String, FileMeta>
    update, quiet,      \* flags
    reference_by_hash,  \* HashMap<String, Vec<String>>
    visited,            \* current keys the for loop has been through
    matched, moved, mismatched, extra,
    out,                \* lines printed to stdout, in order
    store,              \* content of reference_file
    wrote,              \* fs::write(reference_file, ..) was called
    cut,                \* the file holds cut-off JSON (or nothing) after a failed write
    partial,            \* lines the println! that panicked has on stdout
    failed,             \* history: <<ln>> for the println! that panicked, else <<>>
    ret,                \* returned bool ("none" before the return)
    reference0,         \* history: reference as passed in
    verdict,            \* history: path -> branch of the match it took
    prior,              \* history: path -> c_paths of the Moved branch
    \* ---- hash_files_parallel
    spc,                \* "run" | "returned"
    paths,              \* Vec<PathBuf>, as the set of its elements
    show_progress,
    task,               \* path -> position of the closure run for it
    meta,               \* path -> result of calculate_blake3 in that closure
    map,                \* Arc<Mutex<HashMap>>: the protected HashMap
    lock,               \* the closure (its path) holding the Mutex, or NoHolder
    pos,                \* ProgressBar position
    result,             \* returned HashMap (empty before the return)
    \* ---- main
    mpc,                \* position in main; "exited" once the process ended
    args,               \* env::args(), args[1] being the program name
    snapshot,           \* what the file named after --verify is when read
    walked,             \* history: walk_files was called
    hashed,             \* history: hash_files_parallel was called
    cause,              \* history: why the process ended
    exit_code           \* <<status>> once the process ended, <<>> before

rvars == <<pc, current, reference, update, quiet, reference_by_hash, visited,
           matched, moved, mismatched, extra, out, store, wrote, cut, partial, failed, ret,
           reference0, verdict, prior>>
svars == <<spc, paths, show_progress, task, meta, map, lock, pos, result>>
mvars == <<mpc, args, snapshot, walked, hashed, cause, exit_code>>
vars == <<rvars, svars, mvars>>

\* HashMap::insert
Put(m, k, v) == [x \in (DOMAIN m) \cup {k} |-> IF x = k THEN v ELSE m[x]]

\* All orders in which a HashMap with key set S may be iterated.
RECURSIVE Orders(_)
Orders(S) ==
    IF S = {} THEN {<<>>}
    ELSE UNION {{<<x>> \o t : t \in Orders(S \ {x})} : x \in S}

\* Variant of get_reference_by_hash: each hash keeps only the path seen last
\* (an insert where the code pushes).
get_reference_by_hash_last(ref, order) ==
    LET hs == {ref[p].hash : p \in DOMAIN ref}
        IsH(h) == LET Test(p) == ref[p].hash = h
                      all == SelectSeq(order, Test)
                  IN <<all[Len(all)]>>
    IN [h \in hs |-> IsH(h)]

\* Variant of get_reference_by_hash: entries of empty files are not indexed.
get_reference_by_hash_skip_empty(ref, order) ==
    LET hs == {ref[p].hash : p \in {q \in DOMAIN ref : ref[q].size # 0}}
        IsH(h) == LET Test(p) == ref[p].hash = h /\ ref[p].size # 0
                  IN SelectSeq(order, Test)
    IN [h \in hs |-> IsH(h)]

\* get_reference_by_hash, iterating `ref` in the order `order`.
get_reference_by_hash(ref, order) ==
    LET hs == {ref[p].hash : p \in DOMAIN ref}
        IsH(h) == LET Test(p) == ref[p].hash = h IN SelectSeq(order, Test)
    IN [h \in hs |-> IsH(h)]

\* The return value before the return.
None == "none"

\* ------------------------------------------------------------ reporting
\* prev_paths.len() < 3: the Moved line is printed for fewer candidates only.
MovedListLimit == 3

\* One println!: what it reports, about which path, with which list / count.
Line(kind, path, prev, n) == [kind |-> kind, path |-> path, prev |-> prev, n |-> n]

\* if !quiet { println!(..) }
PrintUnlessQuiet(o, ln) == IF ~quiet THEN Append(o, ln) ELSE o

\* The MISMATCH println!, which no flag guards.
PrintMismatch(o, path) == Append(o, Line("MISMATCH", path, <<>>, 0))

\* if !quiet && prev_paths.len() < 3 { println!(MOVED ..) }
PrintMoved(o, path, c_paths) ==
    IF ~quiet /\ Len(c_paths) < MovedListLimit
    THEN Append(o, Line("MOVED", path, c_paths, 0))
    ELSE o

\* if !quiet { the five SUMMARY println!s }
PrintSummary(o) ==
    IF ~quiet
    THEN o \o << Line("SUMMARY", "", <<>>, 0),
                 Line("Verified", "", <<>>, matched),
                 Line("Moved", "", <<>>, moved),
                 Line("Mismatched", "", <<>>, mismatched),
                 Line("Extra", "", <<>>, extra) >>
    ELSE o

\* ------------------------------------------------- decisions of the loop
\* Variant of HashEqual: the whole fingerprint is compared, not the hash alone.
HashEqual_with_modified(current_meta, expected_meta) ==
    /\ current_meta.hash = expected_meta.hash
    /\ current_meta.modified = expected_meta.modified

\* current_meta.hash == expected_meta.hash
HashEqual(current_meta, expected_meta) == current_meta.hash = expected_meta.hash

\* Variant of ModifiedEqual: a changed hash is a mismatch whatever the time.
ModifiedEqual_ignored(current_meta, expected_meta) == TRUE

\* current_meta.modified == expected_meta.modified
ModifiedEqual(current_meta, expected_meta) ==
    current_meta.modified = expected_meta.modified

\* reference_by_hash.get(&current_meta.hash) is Some
KnownHash(current_meta) == current_meta.hash \in DOMAIN reference_by_hash

\* Variant of NonEmpty: the size test of the Moved branch is left out.
NonEmpty_unchecked(current_meta) == TRUE

\* current_meta.size != 0
NonEmpty(current_meta) == current_meta.size # 0

\* Variant of InsertIfUpdate: the flag is tested the wrong way round.
InsertIfUpdate_inverted(ref, path, current_meta) ==
    IF ~update THEN Put(ref, path, current_meta) ELSE ref

\* Variant of InsertIfUpdate: the flag is not tested.
InsertIfUpdate_always(ref, path, current_meta) == Put(ref, path, current_meta)

\* Variant of InsertIfUpdate: the insert also drops the entries of other
\* paths with the same hash (a move instead of a copy).
InsertIfUpdate_moving(ref, path, current_meta) ==
    IF update
    THEN Put([q \in {k \in DOMAIN ref : ref[k].hash # current_meta.hash} |-> ref[q]],
             path, current_meta)
    ELSE ref

\* if update { reference.insert(path.clone(), current_meta.clone()); }
InsertIfUpdate(ref, path, current_meta) ==
    IF update THEN Put(ref, path, current_meta) ELSE ref

\* if update { if !quiet { println!(Added to reference list) } .. }
PrintAddedIfUpdate(o) ==
    IF update THEN PrintUnlessQuiet(o, Line("ADDED", "", <<>>, 0)) ELSE o

\* The map serialized into reference_file: FileHashMap(current.clone()).
SnapshotWritten == current

\* Variant of HasMismatch: off by one.
HasMismatch_off_by_one == mismatched >= 0

\* mismatched > 0
HasMismatch == mismatched > 0

\* ---------------------------------------------------- verify_and_update
\* let reference_by_hash = get_reference_by_hash(reference);
BuildIndex ==
    /\ pc = "start"
    /\ \E order \in Orders(DOMAIN reference) :
          reference_by_hash' = get_reference_by_hash(reference, order)
    /\ pc' = "loop"
    /\ UNCHANGED <<current, reference, update, quiet, visited, matched, moved,
                   mismatched, extra, out, store, wrote, cut, partial, failed, ret, reference0,
                   verdict, prior, svars, mvars>>

\* The for loop reaches `path`, which it has not been through.
Next_path(path) == pc = "loop" /\ path \in (DOMAIN current) \ visited

\* Some(expected_meta), equal hashes
ClassifyMatched(path) ==
    /\ Next_path(path)
    /\ path \in DOMAIN reference
    /\ HashEqual(current[path], reference[path])
    /\ matched' = matched + 1
    /\ visited' = visited \cup {path}
    /\ verdict' = Put(verdict, path, "Matched")
    /\ UNCHANGED <<pc, current, reference, update, quiet, reference_by_hash,
                   moved, mismatched, extra, out, store, wrote, cut, partial, failed, ret,
                   reference0, prior, svars, mvars>>

\* Some(expected_meta), other hash, equal modification time
ClassifyMismatched(path) ==
    /\ Next_path(path)
    /\ path \in DOMAIN reference
    /\ ~HashEqual(current[path], reference[path])
    /\ ModifiedEqual(current[path], reference[path])
    /\ out' = PrintMismatch(out, path)
    /\ mismatched' = mismatched + 1
    /\ visited' = visited \cup {path}
    /\ verdict' = Put(verdict, path, "Mismatched")
    /\ UNCHANGED <<pc, current, reference, update, quiet, reference_by_hash,
                   matched, moved, extra, store, wrote, cut, partial, failed, ret, reference0,
                   prior, svars, mvars>>

\* Some(expected_meta), other hash, other modification time
ClassifySkipped(path) ==
    /\ Next_path(path)
    /\ path \in DOMAIN reference
    /\ ~HashEqual(current[path], reference[path])
    /\ ~ModifiedEqual(current[path], reference[path])
    /\ out' = PrintAddedIfUpdate(
                 PrintUnlessQuiet(out, Line("SKIPPED", path, <<>>, 0)))
    /\ reference' = InsertIfUpdate(reference, path, current[path])
    /\ visited' = visited \cup {path}
    /\ verdict' = Put(verdict, path, "SkippedStaleMetadata")
    /\ UNCHANGED <<pc, current, update, quiet, reference_by_hash, matched,
                   moved, mismatched, extra, store, wrote, cut, partial, failed, ret, reference0,
                   prior, svars, mvars>>

\* None, Some(prev_paths), size != 0
ClassifyMoved(path) ==
    /\ Next_path(path)
    /\ path \notin DOMAIN reference
    /\ KnownHash(current[path])
    /\ NonEmpty(current[path])
    /\ LET c_paths == reference_by_hash[current[path].hash] IN
          /\ out' = PrintMoved(out, path, c_paths)
          /\ prior' = Put(prior, path, c_paths)
    /\ moved' = moved + 1
    /\ reference' = InsertIfUpdate(reference, path, current[path])
    /\ visited' = visited \cup {path}
    /\ verdict' = Put(verdict, path, "Moved")
    /\ UNCHANGED <<pc, current, update, quiet, reference_by_hash, matched,
                   mismatched, extra, store, wrote, cut, partial, failed, ret, reference0, svars, mvars>>

\* None, Some(prev_paths), size == 0: the inner `if` has no else, and the
\* else of the `if let` is not taken, so the iteration does nothing.
ClassifyNothing(path) ==
    /\ Next_path(path)
    /\ path \notin DOMAIN reference
    /\ KnownHash(current[path])
    /\ ~NonEmpty(current[path])
    /\ visited' = visited \cup {path}
    /\ verdict' = Put(verdict, path, None)
    /\ UNCHANGED <<pc, current, reference, update, quiet, reference_by_hash,
                   matched, moved, mismatched, extra, out, store, wrote, cut, partial, failed, ret,
                   reference0, prior, svars, mvars>>

\* None, no reference entry has the hash
ClassifyExtra(path) ==
    /\ Next_path(path)
    /\ path \notin DOMAIN reference
    /\ ~KnownHash(current[path])
    /\ out' = PrintAddedIfUpdate(
                 PrintUnlessQuiet(out, Line("EXTRA", path, <<>>, 0)))
    /\ extra' = extra + 1
    /\ reference' = InsertIfUpdate(reference, path, current[path])
    /\ visited' = visited \cup {path}
    /\ verdict' = Put(verdict, path, "Extra")
    /\ UNCHANGED <<pc, current, update, quiet, reference_by_hash, matched,
                   moved, mismatched, store, wrote, cut, partial, failed, ret, reference0, prior,
                   svars, mvars>>

\* The lines one iteration of the loop prints for `path`, in order.
IterationLines(path) ==
    IF path \in DOMAIN reference
    THEN IF HashEqual(current[path], reference[path]) THEN <<>>
         ELSE IF ModifiedEqual(current[path], reference[path])
              THEN PrintMismatch(<<>>, path)
              ELSE PrintAddedIfUpdate(
                      PrintUnlessQuiet(<<>>, Line("SKIPPED", path, <<>>, 0)))
    ELSE IF KnownHash(current[path])
         THEN IF NonEmpty(current[path])
              THEN PrintMoved(<<>>, path, reference_by_hash[current[path].hash])
              ELSE <<>>
         ELSE PrintAddedIfUpdate(
                 PrintUnlessQuiet(<<>>, Line("EXTRA", path, <<>>, 0)))

\* One write(2) of a println!: stdout is line buffered, so a println! whose
\* text has several lines is written line by line.
Written(kind, arg) == [kind |-> kind, arg |-> arg]

\* The lines of the println! `ln` that are written before its last line:
\* the MISMATCH println! has three lines (header, expected, found), the MOVED
\* one two (header, previously), the SUMMARY header and the update notice
\* start with an empty line; every other println! is one line.
LinesBeforeLast(ln) ==
    CASE ln.kind = "MISMATCH" ->
            << Written("MISMATCH", <<ln.path>>),
               Written("expected", <<reference[ln.path].hash>>) >>
      [] ln.kind = "MOVED" -> << Written("MOVED", <<ln.path>>) >>
      [] ln.kind \in {"SUMMARY", "UPDATING"} -> << Written("", <<>>) >>
      [] OTHER -> <<>>

\* The println! at position k of `lines` fails to write to stdout (its
\* reader is gone): the println!s before it were printed, it has written j
\* of its lines, and the thread panics.
PrintFails(lines) ==
    \E k \in 1..Len(lines) :
       \E j \in 0..Len(LinesBeforeLast(lines[k])) :
          /\ out' = out \o SubSeq(lines, 1, k - 1)
          /\ partial' = SubSeq(LinesBeforeLast(lines[k]), 1, j)
          /\ failed' = <<lines[k]>>

\* A println! of the iteration for `path` panics; the locals are dropped.
ClassifyPanics(path) ==
    /\ Next_path(path)
    /\ PrintFails(IterationLines(path))
    /\ pc' = "print_panic"
    /\ UNCHANGED <<current, reference, update, quiet, reference_by_hash,
                   visited, matched, moved, mismatched, extra, store, wrote,
                   cut, ret, reference0, verdict, prior, svars, mvars>>

\* The lines printed after the loop: the summary, then the update notice.
FinishLines ==
    IF update
    THEN PrintUnlessQuiet(PrintSummary(<<>>), Line("UPDATING", "", <<>>, 0))
    ELSE PrintSummary(<<>>)

\* After the loop: the summary, the write of reference_file, the return.
Finish ==
    /\ pc = "loop"
    /\ visited = DOMAIN current
    /\ out' = out \o FinishLines
    /\ store' = (IF update THEN SnapshotWritten ELSE store)
    /\ wrote' = update
    /\ ret' = HasMismatch
    /\ pc' = "done"
    /\ UNCHANGED <<current, reference, update, quiet, reference_by_hash,
                   visited, matched, moved, mismatched, extra, cut, partial, failed,
                   reference0, verdict, prior, svars, mvars>>

\* A println! of the summary or of the update notice fails: the thread
\* panics before fs::write is reached.
FinishPrintPanics ==
    /\ pc = "loop"
    /\ visited = DOMAIN current
    /\ PrintFails(FinishLines)
    /\ pc' = "print_panic"
    /\ UNCHANGED <<current, reference, update, quiet, reference_by_hash,
                   visited, matched, moved, mismatched, extra, store, wrote,
                   cut, ret, reference0, verdict, prior, svars, mvars>>

\* fs::write(reference_file, json).expect(..) fails: the thread panics after
\* the summary and the notice were printed. fs::write opens the file with
\* truncation and then writes: when the open fails the file is as it was,
\* when the write fails the file holds nothing or the beginning of the JSON
\* text, which is no snapshot.
FinishPanics ==
    /\ pc = "loop"
    /\ visited = DOMAIN current
    /\ update
    /\ out' = out \o FinishLines
    /\ wrote' = TRUE
    /\ \E opened \in BOOLEAN :
          /\ cut' = opened
          /\ store' = (IF opened THEN EmptyMap ELSE store)
    /\ pc' = "write_panic"
    /\ UNCHANGED <<current, reference, update, quiet, reference_by_hash,
                   visited, matched, moved, mismatched, extra, partial, failed, ret,
                   reference0, verdict, prior, svars, mvars>>

\* main's variables while verify_and_update or hash_files_parallel is
\* looked at alone.
MainOff ==
    /\ mpc = "off"
    /\ args = <<>>
    /\ snapshot = "ok"
    /\ walked = FALSE
    /\ hashed = FALSE
    /\ cause = "running"
    /\ exit_code = <<>>

\* The scanner's variables while it does not run.
ScanOff ==
    /\ spc = "off"
    /\ paths = {}
    /\ show_progress = FALSE
    /\ task = EmptyMap
    /\ meta = EmptyMap
    /\ map = EmptyMap
    /\ lock = <<>>
    /\ pos = 0
    /\ result = EmptyMap

\* main has loaded reference_file into `reference` and calls
\* verify_and_update(&current, &mut reference, reference_file, update, quiet).
Init ==
    /\ pc = "start"
    /\ current \in CurrentMaps
    /\ reference \in ReferenceMaps
    /\ update \in BOOLEAN
    /\ quiet \in BOOLEAN
    /\ reference_by_hash = EmptyMap
    /\ visited = {}
    /\ matched = 0
    /\ moved = 0
    /\ mismatched = 0
    /\ extra = 0
    /\ out = <<>>
    /\ store = reference
    /\ wrote = FALSE
    /\ cut = FALSE
    /\ partial = <<>>
    /\ failed = <<>>
    /\ ret = None
    /\ reference0 = reference
    /\ verdict = EmptyMap
    /\ prior = EmptyMap
    /\ ScanOff
    /\ MainOff

Next ==
    \/ BuildIndex
    \/ \E path \in Paths : ClassifyMatched(path)
    \/ \E path \in Paths : ClassifyMismatched(path)
    \/ \E path \in Paths : ClassifySkipped(path)
    \/ \E path \in Paths : ClassifyMoved(path)
    \/ \E path \in Paths : ClassifyNothing(path)
    \/ \E path \in Paths : ClassifyExtra(path)
    \/ \E path \in Paths : ClassifyPanics(path)
    \/ Finish
    \/ FinishPrintPanics
    \/ FinishPanics

Spec == Init /\ [][Next]_vars

\* ======================================================================
\* Properties of verify_and_update, stated on its inputs (current,
\* reference0, update, quiet) and checked under Spec.
\* ======================================================================

\* The elements of a Vec.
Range(seq) == {seq[i] : i \in DOMAIN seq}

\* The paths the loop has given the verdict v.
Classified(v) == {p \in visited : verdict[p] = v}

\* path is in the reference as passed in, with another digest ...
DigestChanged(p) ==
    p \in DOMAIN reference0 /\ current[p].hash # reference0[p].hash
\* ... and the same / another modification time.
SameTime(p) == current[p].modified = reference0[p].modified

\* The reference paths that had the digest h before the run.
PathsWithDigest(h) == {q \in DOMAIN reference0 : reference0[q].hash = h}

\* C1: a current entry is Mismatched exactly when its path is in the
\* reference with another digest and the same modification time; the
\* mismatched count counts these entries, and the returned flag is true
\* exactly when there is at least one of them.
C1_MismatchedIffDigestChangedSameTime ==
    /\ \A p \in visited :
          (verdict[p] = "Mismatched") <=> (DigestChanged(p) /\ SameTime(p))
    /\ mismatched = Cardinality({p \in visited : DigestChanged(p) /\ SameTime(p)})
    /\ pc = "done" =>
          (ret <=> \E p \in DOMAIN current : DigestChanged(p) /\ SameTime(p))

\* C1 witness: a finished run that returned true for one Mismatched entry
\* next to an entry with another verdict.
C1_Witness ==
    /\ pc = "done"
    /\ ret = TRUE
    /\ Cardinality(Classified("Mismatched")) = 1
    /\ Classified("SkippedStaleMetadata") # {}

\* C2: with update set, the content written to reference_file is the
\* reference map as mutated by the loop, so every reference entry of a path
\* absent from the scan is still stored with its original record.
C2_WritesMutatedReference ==
    (pc = "done" /\ update) =>
        /\ store = reference
        /\ \A p \in (DOMAIN reference0) \ (DOMAIN current) :
              p \in DOMAIN store /\ store[p] = reference0[p]

\* C3: an entry whose path is in the reference with another digest and
\* another modification time is SkippedStaleMetadata; it is not counted as
\* mismatched, and a run returns true only if some entry is not of this kind.
C3_StaleMetadataIsSkipped ==
    /\ \A p \in visited :
          (DigestChanged(p) /\ ~SameTime(p)) =>
              verdict[p] = "SkippedStaleMetadata"
    /\ mismatched <= Cardinality({p \in visited : ~(DigestChanged(p) /\ ~SameTime(p))})
    /\ (pc = "done" /\ ret = TRUE) =>
          \E p \in DOMAIN current : ~(DigestChanged(p) /\ ~SameTime(p))

\* C3 witness: a finished run with update and quiet set whose entries are
\* all of this kind, and which counted no mismatch and returned false.
C3_Witness ==
    /\ pc = "done"
    /\ ret = FALSE
    /\ update /\ quiet
    /\ Cardinality(DOMAIN current) = MaxFiles
    /\ \A p \in DOMAIN current : DigestChanged(p) /\ ~SameTime(p)
    /\ mismatched = 0

\* path is new, not empty, and its digest is one of the reference's.
MovedCase(p) ==
    /\ p \notin DOMAIN reference0
    /\ current[p].size # 0
    /\ PathsWithDigest(current[p].hash) # {}

\* The scenario of C4: reference {A -> hash(x), B -> hash(y)} and current
\* {A -> hash(x), C -> hash(y)}, files not empty.
C4_Scenario ==
    /\ DOMAIN reference0 = {"A", "B"}
    /\ DOMAIN current = {"A", "C"}
    /\ reference0["A"].hash = "hx" /\ reference0["B"].hash = "hy"
    /\ current["A"].hash = "hx" /\ current["C"].hash = "hy"
    /\ current["C"].size # 0

\* C4: a new, non-empty entry whose digest is a reference entry's is Moved,
\* counted in moved and in no other count, and the prior paths attributed
\* to it are exactly the reference paths that had its digest, each once; the
\* scenario gives matched=1, moved=1, mismatched=0, extra=0 and false.
C4_NewPathKnownDigestIsMoved ==
    /\ \A p \in visited :
          MovedCase(p) =>
              /\ verdict[p] = "Moved"
              /\ Range(prior[p]) = PathsWithDigest(current[p].hash)
              /\ Len(prior[p]) = Cardinality(PathsWithDigest(current[p].hash))
    /\ moved = Cardinality({p \in visited : MovedCase(p)})
    /\ \A p \in visited :
          MovedCase(p) => p \notin Classified("Extra") \cup Classified("Mismatched")
    /\ extra + mismatched + matched <=
          Cardinality({p \in visited : ~MovedCase(p)})
    /\ (pc = "done" /\ C4_Scenario) =>
          /\ matched = 1 /\ moved = 1 /\ mismatched = 0 /\ extra = 0
          /\ ret = FALSE

\* C4 witness: the finished scenario, C attributed to B.
C4_Witness ==
    /\ pc = "done"
    /\ C4_Scenario
    /\ verdict["A"] = "Matched"
    /\ verdict["C"] = "Moved"
    /\ prior["C"] = <<"B">>

\* C4 second case reached: two prior paths share the digest.
C4_WitnessTwoPriorPaths ==
    \E p \in visited : MovedCase(p) /\ Len(prior[p]) = MaxFiles

\* C5: a new entry of size zero is Extra, also when its digest is a
\* reference entry's: it is counted in extra and, with update set, its
\* record is inserted into the reference under its path.
C5_EmptyNewFileIsExtra ==
    /\ \A p \in visited :
          (p \notin DOMAIN reference0 /\ current[p].size = 0) =>
              /\ verdict[p] = "Extra"
              /\ update => (p \in DOMAIN reference /\ reference[p] = current[p])
    /\ extra >= Cardinality({p \in visited :
                                p \notin DOMAIN reference0 /\ current[p].size = 0})

\* C6: no entry of size zero is Moved: the moved count counts entries of
\* nonzero size only, however many reference entries share the digest.
C6_EmptyFileNeverMoved ==
    /\ \A p \in visited : current[p].size = 0 => verdict[p] # "Moved"
    /\ moved = Cardinality(Classified("Moved"))
    /\ moved <= Cardinality({p \in visited : current[p].size # 0})

\* C6 witness: a finished run whose new entry of size zero has the digest
\* that two reference entries share, and which counted no move.
C6_Witness ==
    /\ \E p \in visited :
          /\ current[p].size = 0
          /\ p \notin DOMAIN reference0
          /\ Cardinality(PathsWithDigest(current[p].hash)) > 1
    /\ pc = "done"
    /\ moved = 0

\* The paths whose verdict comes with an insert.
Inserted ==
    Classified("SkippedStaleMetadata") \cup Classified("Moved")
        \cup Classified("Extra")

\* C7: with update set, the reference map is the original one overridden
\* with the current record at exactly the paths classified
\* SkippedStaleMetadata, Moved or Extra; all other entries keep their
\* original record and no key is removed.
C7_UpdateOverridesExactlyInserted ==
    update =>
        /\ reference = [p \in (DOMAIN reference0) \cup Inserted |->
                           IF p \in Inserted THEN current[p] ELSE reference0[p]]
        /\ DOMAIN reference0 \subseteq DOMAIN reference

\* C7 witness: a finished update run with an overwritten entry, a new entry
\* and an entry of a path absent from the scan.
C7_Witness ==
    /\ pc = "done"
    /\ update
    /\ Classified("SkippedStaleMetadata") # {}
    /\ Classified("Moved") # {}
    /\ (DOMAIN reference0) \ (DOMAIN current) # {}
    /\ reference # reference0

\* C8: with update not set, the reference map is never changed and
\* reference_file is never written.
C8_NoUpdateNoChange ==
    ~update => (reference = reference0 /\ store = reference0 /\ ~wrote /\ ~cut)

\* C8 witness: a finished run without update that had entries of the
\* verdicts that insert under update.
C8_Witness ==
    /\ pc = "done"
    /\ ~update
    /\ Classified("SkippedStaleMetadata") # {}
    /\ Classified("Extra") \cup Classified("Moved") # {}

\* Every current path is in the reference with the same digest.
AllDigestsSame ==
    \A p \in DOMAIN current :
        p \in DOMAIN reference0 /\ current[p].hash = reference0[p].hash

\* C9: if every current path is in the reference with the same digest,
\* every entry is Matched whatever its time or size, mismatched is zero,
\* the run returns false and the reference map is not changed.
C9_SameDigestsAllMatched ==
    AllDigestsSame =>
        /\ \A p \in visited : verdict[p] = "Matched"
        /\ matched = Cardinality(visited)
        /\ mismatched = 0
        /\ pc = "done" => ret = FALSE
        /\ reference = reference0

\* C9 witness: a finished update run of this kind in which an entry has
\* another modification time and another size than its reference entry.
C9_Witness ==
    /\ pc = "done"
    /\ update
    /\ AllDigestsSame
    /\ Cardinality(DOMAIN current) = MaxFiles
    /\ \E p \in DOMAIN current :
          /\ current[p].modified # reference0[p].modified
          /\ current[p].size # reference0[p].size

\* ======================================================================
\* hash_files_parallel
\* ======================================================================

\* The PathBufs the directory walk may yield, as byte sequences: "a", and
\* two names that are not UTF-8, "b\xFE" and "b\xFF".
ScanPaths == {<<97>>, <<98, 254>>, <<98, 255>>}

\* The records calculate_blake3 may compute for a file that can be read.
ScanMeta == {m \in FileMeta : m.modified = 1 /\ m.size = 1}

\* std::io::Result<FileMeta>: Ok(m), and Err (also the value a closure
\* holds before its call).
Ok(m) == [ok |-> TRUE, val |-> m]
Err == [ok |-> FALSE, val |-> [hash |-> "", modified |-> 0, size |-> 0]]

\* No closure holds the Mutex: the empty byte sequence, which is no path.
NoHolder == <<>>

\* Path::to_string_lossy, on paths of ASCII bytes and the bytes 0xFE and
\* 0xFF (which no UTF-8 sequence holds): an ASCII byte is its code point,
\* each other byte becomes U+FFFD.
to_string_lossy(path) ==
    [i \in DOMAIN path |-> IF path[i] < 128 THEN path[i] ELSE 65533]

\* The verify_and_update variables while it does not run.
VerifyOff ==
    /\ pc = "off"
    /\ current = EmptyMap
    /\ reference = EmptyMap
    /\ update = FALSE
    /\ quiet = FALSE
    /\ reference_by_hash = EmptyMap
    /\ visited = {}
    /\ matched = 0
    /\ moved = 0
    /\ mismatched = 0
    /\ extra = 0
    /\ out = <<>>
    /\ store = EmptyMap
    /\ wrote = FALSE
    /\ cut = FALSE
    /\ partial = <<>>
    /\ failed = <<>>
    /\ ret = None
    /\ reference0 = EmptyMap
    /\ verdict = EmptyMap
    /\ prior = EmptyMap

\* hash_files_parallel(paths, show_progress) is entered: the map is empty,
\* the bar is at 0, no closure has run.
InitScan ==
    /\ VerifyOff
    /\ MainOff
    /\ spc = "run"
    /\ paths \in SUBSET ScanPaths
    /\ show_progress \in BOOLEAN
    /\ task = [p \in paths |-> "ready"]
    /\ meta = [p \in paths |-> Err]
    /\ map = EmptyMap
    /\ lock = NoHolder
    /\ pos = 0
    /\ result = EmptyMap

\* calculate_blake3(path): Ok(meta) or Err, as the file system decides.
Hash(path) ==
    /\ spc = "run"
    /\ path \in paths
    /\ task[path] = "ready"
    /\ \E r \in {Ok(m) : m \in ScanMeta} \cup {Err} :
          /\ meta' = [meta EXCEPT ![path] = r]
          /\ task' = [task EXCEPT ![path] = IF r.ok THEN "lock" ELSE "tick"]
    /\ UNCHANGED <<spc, paths, show_progress, map, lock, pos, result, rvars, mvars>>

\* Variant of Lock: the closure does not wait for the Mutex.
Lock_unguarded(path) ==
    /\ spc = "run"
    /\ path \in paths
    /\ task[path] = "lock"
    /\ lock' = path
    /\ task' = [task EXCEPT ![path] = "insert"]
    /\ UNCHANGED <<spc, paths, show_progress, meta, map, pos, result, rvars, mvars>>

\* let mut map_lock = map.lock().unwrap();  blocks while the Mutex is held
Lock(path) ==
    /\ spc = "run"
    /\ path \in paths
    /\ task[path] = "lock"
    /\ lock = NoHolder
    /\ lock' = path
    /\ task' = [task EXCEPT ![path] = "insert"]
    /\ UNCHANGED <<spc, paths, show_progress, meta, map, pos, result, rvars, mvars>>

\* map_lock.insert(path.to_string_lossy().to_string(), meta);
Insert(path) ==
    /\ spc = "run"
    /\ path \in paths
    /\ task[path] = "insert"
    /\ map' = Put(map, to_string_lossy(path), meta[path].val)
    /\ task' = [task EXCEPT ![path] = "unlock"]
    /\ UNCHANGED <<spc, paths, show_progress, meta, lock, pos, result, rvars, mvars>>

\* map_lock is dropped at the end of the if let block.
Unlock(path) ==
    /\ spc = "run"
    /\ path \in paths
    /\ task[path] = "unlock"
    /\ lock' = NoHolder
    /\ task' = [task EXCEPT ![path] = "tick"]
    /\ UNCHANGED <<spc, paths, show_progress, meta, map, pos, result, rvars, mvars>>

\* Variant of Tick: pb.inc(1) sits inside the `if let Ok(meta)` block.
Tick_only_ok(path) ==
    /\ spc = "run"
    /\ path \in paths
    /\ task[path] = "tick"
    /\ pos' = (IF show_progress /\ meta[path].ok THEN pos + 1 ELSE pos)
    /\ task' = [task EXCEPT ![path] = "done"]
    /\ UNCHANGED <<spc, paths, show_progress, meta, map, lock, result, rvars, mvars>>

\* if let Some(pb) = &progress { pb.inc(1); }  and the closure ends
Tick(path) ==
    /\ spc = "run"
    /\ path \in paths
    /\ task[path] = "tick"
    /\ pos' = (IF show_progress THEN pos + 1 ELSE pos)
    /\ task' = [task EXCEPT ![path] = "done"]
    /\ UNCHANGED <<spc, paths, show_progress, meta, map, lock, result, rvars, mvars>>

\* for_each has returned: Arc::try_unwrap(map).unwrap().into_inner().unwrap()
Return ==
    /\ spc = "run"
    /\ \A p \in paths : task[p] = "done"
    /\ result' = map
    /\ spc' = "returned"
    /\ UNCHANGED <<paths, show_progress, task, meta, map, lock, pos, rvars, mvars>>

NextScan ==
    \/ \E path \in ScanPaths : Hash(path)
    \/ \E path \in ScanPaths : Lock(path)
    \/ \E path \in ScanPaths : Insert(path)
    \/ \E path \in ScanPaths : Unlock(path)
    \/ \E path \in ScanPaths : Tick(path)
    \/ Return

SpecScan == InitScan /\ [][NextScan]_vars

\* The pool's threads keep running: a closure that can take a step is not
\* left waiting forever, and for_each returns once all closures ended.
FairScan == InitScan /\ [][NextScan]_vars /\ WF_vars(NextScan)

\* ----------------------------------------------------------------------
\* Properties of hash_files_parallel, checked under SpecScan.

\* The input paths whose calculate_blake3 call returned Ok.
Succeeded == {p \in paths : task[p] = "done" /\ meta[p].ok}

\* C10: for every interleaving, the returned map has one key for each input
\* path whose fingerprint call succeeded and no other key, and the key of
\* such a path maps to the record computed for that path; a failing path
\* adds no entry and changes no other path's entry.
C10_ResultIsSucceededPaths ==
    spc = "returned" =>
        /\ DOMAIN result = {to_string_lossy(p) : p \in Succeeded}
        /\ Cardinality(DOMAIN result) = Cardinality(Succeeded)
        /\ \A p \in Succeeded : result[to_string_lossy(p)] = meta[p].val

\* C10 restricted to scans in which no two input paths have the same
\* lossy string: there the returned map is the same for every interleaving.
C10_HoldsForDistinctKeys ==
    (/\ spc = "returned"
     /\ \A p, q \in paths : to_string_lossy(p) = to_string_lossy(q) => p = q) =>
        /\ DOMAIN result = {to_string_lossy(p) : p \in Succeeded}
        /\ Cardinality(DOMAIN result) = Cardinality(Succeeded)
        /\ \A p \in Succeeded : result[to_string_lossy(p)] = meta[p].val

\* ======================================================================
\* main
\* ======================================================================

\* Most command line arguments after the program name.
MaxArgs == 5

\* What an argument may be: the name of a directory, the name of something
\* that is no directory, or one of the flags main looks for.
ArgTokens == {"dir", "file", "--verify", "--update", "--q"}

\* env::args().collect(): the program name, then up to MaxArgs arguments.
ArgLists ==
    {<<"prog">> \o a : a \in UNION {[1..n -> ArgTokens] : n \in 0..MaxArgs}}

\* args.len() < 3 is a usage error.
UsageLen == 3

\* Process exit statuses: Ok(()) from main, exit(1) and an Err from main,
\* exit(2), and a panic of the main thread.
ExitSuccess == 0
ExitFailure == 1
ExitMismatch == 2
ExitPanic == 101

\* args.contains(&flag.to_string())
Contains(a, flag) == \E i \in DOMAIN a : a[i] = flag

\* args.iter().position(|x| x == "--verify").and_then(|i| args.get(i + 1)):
\* <<name>> for Some(name), <<>> for None.
verify_file(a) ==
    IF ~Contains(a, "--verify") THEN <<>>
    ELSE LET i == CHOOSE k \in DOMAIN a :
                    a[k] = "--verify" /\ \A j \in 1..(k - 1) : a[j] # "--verify"
         IN IF i + 1 <= Len(a) THEN <<a[i + 1]>> ELSE <<>>

\* dir.is_dir()
is_dir(name) == name = "dir"

\* fs::read_to_string(&verify_file) is Ok
ReadOk(name, status) == ~is_dir(name) /\ status # "missing"

\* Variant of ParseOk: a malformed snapshot is taken for an empty one.
ParseOk_lenient(status) == TRUE

\* serde_json::from_str(&data) is Ok
ParseOk(status) == status = "ok"

\* Variant of ExitAfterVerify: the mismatches are reported but not returned.
ExitAfterVerify_always_ok(had_mismatches) == ExitSuccess

\* if had_mismatches { exit(2) } .. Ok(())
ExitAfterVerify(had_mismatches) ==
    IF had_mismatches THEN ExitMismatch ELSE ExitSuccess

\* The maps hash_files_parallel returns in a run of main.
MainScans == FileHashMap({"A"})

\* The maps a well-formed snapshot file holds in a run of main: empty, or
\* one entry.
MainSnapshots == {m \in ReferenceMaps : Cardinality(DOMAIN m) <= 1}

\* The process ends with status `code`, for the reason `why`.
Exit(code, why) ==
    /\ mpc' = "exited"
    /\ exit_code' = <<code>>
    /\ cause' = why

\* main is entered.
InitMain ==
    /\ VerifyOff
    /\ ScanOff
    /\ mpc = "args"
    /\ args \in ArgLists
    /\ snapshot \in {"missing", "malformed", "ok"}
    /\ walked = FALSE
    /\ hashed = FALSE
    /\ cause = "running"
    /\ exit_code = <<>>

\* if args.len() < 3 { usage; exit(1) }
MainUsage ==
    /\ mpc = "args"
    /\ Len(args) < UsageLen
    /\ Exit(ExitFailure, "usage")
    /\ UNCHANGED <<args, snapshot, walked, hashed, rvars, svars>>

\* An eprintln! of the usage text fails to write to stderr: main panics.
MainUsagePanics ==
    /\ mpc = "args"
    /\ Len(args) < UsageLen
    /\ Exit(ExitPanic, "stderr")
    /\ UNCHANGED <<args, snapshot, walked, hashed, rvars, svars>>

\* The flags and file names are taken from args.
MainParseArgs ==
    /\ mpc = "args"
    /\ Len(args) >= UsageLen
    /\ mpc' = "dir"
    /\ UNCHANGED <<args, snapshot, walked, hashed, cause, exit_code, rvars, svars>>

\* if !dir.is_dir() { exit(1) }
MainNotDir ==
    /\ mpc = "dir"
    /\ ~is_dir(args[2])
    /\ Exit(ExitFailure, "not_dir")
    /\ UNCHANGED <<args, snapshot, walked, hashed, rvars, svars>>

\* The eprintln! of the not-a-directory error fails: main panics.
MainNotDirPanics ==
    /\ mpc = "dir"
    /\ ~is_dir(args[2])
    /\ Exit(ExitPanic, "stderr")
    /\ UNCHANGED <<args, snapshot, walked, hashed, rvars, svars>>

\* let files = walk_files(&dir, &skip_dirs);
MainWalk ==
    /\ mpc = "dir"
    /\ is_dir(args[2])
    /\ walked' = TRUE
    /\ mpc' = "hash"
    /\ UNCHANGED <<args, snapshot, hashed, cause, exit_code, rvars, svars>>

\* let current_hashes = hash_files_parallel(files, show_progress);
MainHash ==
    /\ mpc = "hash"
    /\ current' \in MainScans
    /\ hashed' = TRUE
    /\ mpc' = "mode"
    /\ UNCHANGED <<pc, reference, update, quiet, reference_by_hash, visited,
                   matched, moved, mismatched, extra, out, store, wrote, cut, partial, failed, ret,
                   reference0, verdict, prior>>
    /\ UNCHANGED <<args, snapshot, walked, cause, exit_code, svars>>

\* verify_file.expect("Missing argument for --verify") panics
MainMissingVerifyFile ==
    /\ mpc = "mode"
    /\ Contains(args, "--verify")
    /\ verify_file(args) = <<>>
    /\ Exit(ExitPanic, "missing_arg")
    /\ UNCHANGED <<args, snapshot, walked, hashed, rvars, svars>>

\* fs::read_to_string(&verify_file)? returns the Err from main
MainReadFails ==
    /\ mpc = "mode"
    /\ Contains(args, "--verify")
    /\ verify_file(args) # <<>>
    /\ ~ReadOk(verify_file(args)[1], snapshot)
    /\ Exit(ExitFailure, "read")
    /\ UNCHANGED <<args, snapshot, walked, hashed, rvars, svars>>

\* serde_json::from_str(&data)? returns the Err from main
MainParseFails ==
    /\ mpc = "mode"
    /\ Contains(args, "--verify")
    /\ verify_file(args) # <<>>
    /\ ReadOk(verify_file(args)[1], snapshot)
    /\ ~ParseOk(snapshot)
    /\ Exit(ExitFailure, "parse")
    /\ UNCHANGED <<args, snapshot, walked, hashed, rvars, svars>>

\* verify_and_update(&current_hashes, &mut reference_hashes, &verify_file,
\* update, quiet) is entered with the map the file holds.
MainCallVerify ==
    /\ mpc = "mode"
    /\ Contains(args, "--verify")
    /\ verify_file(args) # <<>>
    /\ ReadOk(verify_file(args)[1], snapshot)
    /\ ParseOk(snapshot)
    /\ \E loaded \in MainSnapshots :
          /\ reference' = loaded
          /\ reference0' = loaded
          /\ store' = loaded
    /\ update' = Contains(args, "--update")
    /\ quiet' = Contains(args, "--q")
    /\ pc' = "start"
    /\ mpc' = "verify"
    /\ UNCHANGED <<current, reference_by_hash, visited, matched, moved,
                   mismatched, extra, out, wrote, cut, partial, failed, ret, verdict, prior>>
    /\ UNCHANGED <<args, snapshot, walked, hashed, cause, exit_code, svars>>

\* verify_and_update has returned: exit(2) on mismatches, else Ok(()).
MainAfterVerify ==
    /\ mpc = "verify"
    /\ pc = "done"
    /\ Exit(ExitAfterVerify(ret), IF ret THEN "mismatch" ELSE "ok")
    /\ UNCHANGED <<args, snapshot, walked, hashed, rvars, svars>>

\* had_mismatches is true and the eprintln! before exit(2) fails: main
\* panics.
MainMismatchReportPanics ==
    /\ mpc = "verify"
    /\ pc = "done"
    /\ ret = TRUE
    /\ Exit(ExitPanic, "stderr")
    /\ UNCHANGED <<args, snapshot, walked, hashed, rvars, svars>>

\* The line whose write failed stays in stdout's buffer, unless it is the
\* empty line a println! starts with, which is written with nothing
\* buffered before it.
Buffered ==
    /\ failed # <<>>
    /\ Len(partial) < Len(LinesBeforeLast(failed[1])) =>
          LinesBeforeLast(failed[1])[Len(partial) + 1].kind # ""

\* verify_and_update panicked, on a println! or on the write of
\* reference_file: the process ends with the panic status. At the exit the
\* runtime flushes stdout's buffer, errors ignored: the line whose write
\* failed reaches stdout after all when stdout takes it then, which makes
\* the println! complete when it was its last line.
MainVerifyPanicked ==
    /\ mpc = "verify"
    /\ pc \in {"print_panic", "write_panic"}
    /\ \E flushed \in {f \in BOOLEAN : f => (pc = "print_panic" /\ Buffered)} :
          IF ~flushed
          THEN UNCHANGED <<out, partial>>
          ELSE IF Len(partial) < Len(LinesBeforeLast(failed[1]))
               THEN /\ partial' =
                          Append(partial,
                                 LinesBeforeLast(failed[1])[Len(partial) + 1])
                    /\ out' = out
               ELSE /\ out' = Append(out, failed[1])
                    /\ partial' = <<>>
    /\ Exit(ExitPanic, IF pc = "print_panic" THEN "stdout" ELSE "write")
    /\ UNCHANGED <<pc, current, reference, update, quiet, reference_by_hash,
                   visited, matched, moved, mismatched, extra, store, wrote,
                   cut, failed, ret, reference0, verdict, prior>>
    /\ UNCHANGED <<args, snapshot, walked, hashed, svars>>

\* if !quiet { println!("Hash table written to {}", output_file.display()) }
PrintWritten(o, a) ==
    IF ~Contains(a, "--q") THEN Append(o, Line("WRITTEN", a[3], <<>>, 0)) ELSE o

\* Without --verify: fs::write(&output_file, json)? succeeds, the notice is
\* printed, Ok(()).
MainWriteOutput ==
    /\ mpc = "mode"
    /\ ~Contains(args, "--verify")
    /\ ~is_dir(args[3])
    /\ store' = current
    /\ wrote' = TRUE
    /\ cut' = FALSE
    /\ out' = PrintWritten(out, args)
    /\ Exit(ExitSuccess, "ok")
    /\ UNCHANGED <<pc, current, reference, update, quiet, reference_by_hash,
                   visited, matched, moved, mismatched, extra, partial, failed, ret,
                   reference0, verdict, prior>>
    /\ UNCHANGED <<args, snapshot, walked, hashed, svars>>

\* Without --verify: the file is written, then the println! of the notice
\* fails and main panics. The notice stays in stdout's buffer and the flush
\* at the exit may still bring it to stdout.
MainWriteOutputPrintPanics ==
    /\ mpc = "mode"
    /\ ~Contains(args, "--verify")
    /\ ~is_dir(args[3])
    /\ PrintWritten(out, args) # out
    /\ store' = current
    /\ wrote' = TRUE
    /\ cut' = FALSE
    /\ failed' = <<Line("WRITTEN", args[3], <<>>, 0)>>
    /\ out' \in {out, PrintWritten(out, args)}
    /\ Exit(ExitPanic, "stdout")
    /\ UNCHANGED <<pc, current, reference, update, quiet, reference_by_hash,
                   visited, matched, moved, mismatched, extra, partial,
                   ret, reference0, verdict, prior>>
    /\ UNCHANGED <<args, snapshot, walked, hashed, svars>>

\* Without --verify: fs::write(&output_file, json)? returns the Err. When
\* the open failed (always so for a directory) the file is as it was; when
\* the write failed after the truncating open, the file exists and holds
\* nothing or the beginning of the JSON text.
MainWriteOutputFails ==
    /\ mpc = "mode"
    /\ ~Contains(args, "--verify")
    /\ wrote' = TRUE
    /\ \E opened \in {o \in BOOLEAN : o => ~is_dir(args[3])} :
          /\ cut' = opened
          /\ store' = (IF opened THEN EmptyMap ELSE store)
    /\ Exit(ExitFailure, "write")
    /\ UNCHANGED <<pc, current, reference, update, quiet, reference_by_hash,
                   visited, matched, moved, mismatched, extra, out, partial, failed,
                   ret, reference0, verdict, prior>>
    /\ UNCHANGED <<args, snapshot, walked, hashed, svars>>

NextMain ==
    \/ MainUsage
    \/ MainUsagePanics
    \/ MainParseArgs
    \/ MainNotDir
    \/ MainNotDirPanics
    \/ MainWalk
    \/ MainHash
    \/ MainMissingVerifyFile
    \/ MainReadFails
    \/ MainParseFails
    \/ MainCallVerify
    \/ Next
    \/ MainAfterVerify
    \/ MainMismatchReportPanics
    \/ MainVerifyPanicked
    \/ MainWriteOutput
    \/ MainWriteOutputPrintPanics
    \/ MainWriteOutputFails

SpecMain == InitMain /\ [][NextMain]_vars

\* ----------------------------------------------------------------------
\* Properties of main, checked under SpecMain.

\* The invocation is invalid: too few arguments, a first argument that is
\* no directory, or --verify with nothing after it.
UsageError ==
    \/ Len(args) < UsageLen
    \/ ~is_dir(args[2])
    \/ (Contains(args, "--verify") /\ verify_file(args) = <<>>)

\* A valid verify invocation whose snapshot file is missing or malformed.
SnapshotError ==
    /\ ~UsageError
    /\ Contains(args, "--verify")
    /\ (~ReadOk(verify_file(args)[1], snapshot) \/ snapshot # "ok")

\* The verify run completed: verify_and_update returned and main ended
\* without a panic.
VerifyCompleted == mpc = "exited" /\ pc = "done" /\ cause \in {"ok", "mismatch"}

\* C11: the exit status is 0 after a verify run that completed without a
\* Mismatched verdict, 2 after one that completed with a Mismatched verdict,
\* and neither 0 nor 2 after a usage error, a snapshot read, parse or
\* write failure, or a panic; 0 and 2 differ.
C11_ExitStatusDistinguishes ==
    /\ ExitSuccess # ExitMismatch
    /\ mpc = "exited" =>
          /\ (VerifyCompleted /\ Classified("Mismatched") = {}) =>
                exit_code = <<ExitSuccess>>
          /\ (VerifyCompleted /\ Classified("Mismatched") # {}) =>
                exit_code = <<ExitMismatch>>
          /\ (pc = "done" /\ ~VerifyCompleted) => exit_code = <<ExitPanic>>
          /\ (UsageError \/ SnapshotError
                 \/ pc \in {"print_panic", "write_panic"}) =>
                exit_code \notin {<<ExitSuccess>>, <<ExitMismatch>>}

\* C11 witness: a verify run that found a mismatch has exited with 2.
C11_Witness ==
    /\ VerifyCompleted
    /\ Classified("Mismatched") # {}
    /\ exit_code = <<ExitMismatch>>

\* C15: in verify mode a missing or malformed snapshot file ends the run
\* before any classification: verify_and_update is not entered, there is no
\* verdict, and no file is written.
C15_SnapshotErrorBeforeClassification ==
    SnapshotError =>
        /\ pc = "off"
        /\ visited = {}
        /\ verdict = EmptyMap
        /\ ~wrote /\ ~cut
        /\ mpc = "exited" => exit_code = <<ExitFailure>>

\* C15 witness: a run has ended on a malformed snapshot, after the scan.
C15_Witness ==
    /\ mpc = "exited"
    /\ SnapshotError
    /\ snapshot = "malformed"
    /\ cause = "parse"
    /\ hashed

\* C16: a run with an invalid invocation ends before the directory is
\* walked and before any file is fingerprinted.
C16_UsageErrorBeforeAnyWork ==
    (mpc = "exited" /\ UsageError) => (~walked /\ ~hashed)

\* ----------------------------------------------------------------------
\* Further properties of verify_and_update, checked under Spec.

\* C12: with quiet set nothing is printed: no verdict line, no summary and
\* no update notice.
C12_QuietPrintsNothing ==
    quiet => out = <<>>

\* What the inputs (current, reference0, update) say about a path of the
\* scan; the quiet flag and the iteration order do not occur.
InMatched ==
    {p \in DOMAIN current :
        p \in DOMAIN reference0 /\ current[p].hash = reference0[p].hash}
InMismatched == {p \in DOMAIN current : DigestChanged(p) /\ SameTime(p)}
InSkipped == {p \in DOMAIN current : DigestChanged(p) /\ ~SameTime(p)}
InMoved == {p \in DOMAIN current : MovedCase(p)}
InExtra ==
    {p \in DOMAIN current :
        p \notin DOMAIN reference0 /\ PathsWithDigest(current[p].hash) = {}}
InInserted == InSkipped \cup InMoved \cup InExtra

\* The reference map and the file content these inputs lead to.
ExpectedReference ==
    IF update
    THEN [p \in (DOMAIN reference0) \cup InInserted |->
             IF p \in InInserted THEN current[p] ELSE reference0[p]]
    ELSE reference0
ExpectedStore == IF update THEN current ELSE reference0

\* What the inputs determine for a run that returns: the counts, the
\* returned flag, the final reference map, and the write with its content.
ResultOfInputs ==
    /\ matched = Cardinality(InMatched)
    /\ moved = Cardinality(InMoved)
    /\ mismatched = Cardinality(InMismatched)
    /\ extra = Cardinality(InExtra)
    /\ ret = (InMismatched # {})
    /\ reference = ExpectedReference
    /\ wrote = update
    /\ ~cut
    /\ store = ExpectedStore

\* A run panics on a println! only if it has a line to print: it is not
\* quiet, or it has a Mismatched entry. So the quiet run of inputs without
\* a Mismatched entry never panics on a println!, whatever stdout does.
PrintPanicNeedsOutput ==
    pc = "print_panic" => (~quiet \/ InMismatched # {})

\* Two runs that both return and differ in quiet only agree on the counts,
\* the returned flag, the final reference map and the write.
C13_HoldsForReturningRuns ==
    pc = "done" => ResultOfInputs

\* C13: a run ends as the run of the same current map, reference map and
\* update flag with the other quiet value does. A run that returns has the
\* counts, the returned flag, the final reference map and the write
\* (performed or not, and its content) that these inputs determine; and a
\* run of inputs without a Mismatched entry, whose quiet twin prints nothing
\* and so returns and performs the write, does not end in a println! panic
\* before the write.
C13_QuietDoesNotInfluenceResult ==
    /\ pc = "done" => ResultOfInputs
    /\ InMismatched = {} => pc # "print_panic"

\* C17: after an update run in which a path was Mismatched, the stored
\* snapshot still holds the original reference record of that path (so
\* that the next run finds the mismatch again).
C17_MismatchSurvivesUpdate ==
    (pc = "done" /\ update) =>
        \A p \in Classified("Mismatched") :
            p \in DOMAIN store /\ store[p] = reference0[p]

\* C18: from the first classification on, the index is the one of the
\* reference map as passed in, whatever was inserted into the reference
\* since; so a new path whose digest no original reference entry has is
\* Extra, also after another new path with that digest was inserted.
C18_IndexIsOfOriginalReference ==
    /\ pc # "start" =>
          /\ DOMAIN reference_by_hash = {reference0[q].hash : q \in DOMAIN reference0}
          /\ \A h \in DOMAIN reference_by_hash :
                Range(reference_by_hash[h]) = PathsWithDigest(h)
    /\ \A p \in visited :
          (p \notin DOMAIN reference0 /\ PathsWithDigest(current[p].hash) = {}) =>
              verdict[p] = "Extra"

\* C18 witness: under update two new non-empty paths with the same digest,
\* which no original reference entry has, are both Extra.
C18_Witness ==
    /\ update
    /\ \E p, q \in Classified("Extra") :
          /\ p # q
          /\ current[p].hash = current[q].hash
          /\ current[p].size # 0 /\ current[q].size # 0
          /\ p \in DOMAIN reference /\ q \in DOMAIN reference

\* The verdict the inputs give a path ("none": no branch counts it).
VerdictOf(p) ==
    IF p \in InMatched THEN "Matched"
    ELSE IF p \in InMismatched THEN "Mismatched"
    ELSE IF p \in InSkipped THEN "SkippedStaleMetadata"
    ELSE IF p \in InMoved THEN "Moved"
    ELSE IF p \in InExtra THEN "Extra"
    ELSE None

\* C19: whatever the order in which the current map is iterated, each path
\* gets the verdict its inputs determine, also when update has changed the
\* reference map earlier in the loop, and a finished run has the counts,
\* the flag, the reference map and the written content they determine.
C19_IterationOrderDoesNotMatter ==
    /\ \A p \in visited : verdict[p] = VerdictOf(p)
    /\ reference =
          [p \in (DOMAIN reference0) \cup (IF update THEN InInserted \cap visited ELSE {}) |->
              IF update /\ p \in InInserted \cap visited
              THEN current[p] ELSE reference0[p]]
    /\ pc = "done" =>
          /\ <<matched, moved, mismatched, extra>> =
                <<Cardinality(InMatched), Cardinality(InMoved),
                  Cardinality(InMismatched), Cardinality(InExtra)>>
          /\ ret = (InMismatched # {})
          /\ store = ExpectedStore

\* C19 witness: a finished update run over a full scan in which an insert
\* preceded the classification of another path.
C19_Witness ==
    /\ pc = "done"
    /\ update
    /\ Cardinality(visited) = MaxFiles
    /\ InInserted # {}
    /\ visited \ InInserted # {}
    /\ reference # reference0

\* ----------------------------------------------------------------------
\* Further properties of hash_files_parallel.

\* C14: with progress reporting the bar's position is the number of
\* closures that ended, whether their fingerprint succeeded or failed, so
\* at the return it is the number of input paths; without it the bar
\* does not exist.
C14_ProgressCountsEveryPath ==
    /\ show_progress =>
          /\ pos = Cardinality({p \in paths : task[p] = "done"})
          /\ spc = "returned" => pos = Cardinality(paths)
    /\ ~show_progress => pos = 0

\* C14 witness: a scan with progress has returned after a failed and a
\* succeeded fingerprint.
C14_Witness ==
    /\ spc = "returned"
    /\ show_progress
    /\ \E p, q \in paths : meta[p].ok /\ ~meta[q].ok
    /\ pos = Cardinality(paths)

\* The closures that hold the Mutex.
Holders == {p \in paths : task[p] \in {"insert", "unlock"}}

\* At most one closure holds the Mutex, it holds it with its record already
\* computed, and the Mutex is free at the return.
LockDiscipline ==
    /\ Cardinality(Holders) <= 1
    /\ \A p \in paths : p \in Holders <=> lock = p
    /\ \A p \in Holders : meta[p].ok
    /\ \A p \in paths : task[p] = "ready" => lock # p
    /\ spc = "returned" => lock = NoHolder

\* The scan has returned with every path processed and the Mutex free.
ScanTerminated ==
    /\ spc = "returned"
    /\ \A p \in paths : task[p] = "done"
    /\ lock = NoHolder

\* C20 (under FairScan): the Mutex is held by at most one closure at a
\* time, only between the end of its fingerprint and its insert, never
\* during a fingerprint; and the scan ends with every path processed and
\* the Mutex free.
C20_LockHeldBrieflyAndScanEnds ==
    []LockDiscipline /\ <>ScanTerminated

\* C20 witness: a closure holds the Mutex while another, its record
\* computed, waits for it and a third is still to be fingerprinted.
C20_Witness ==
    /\ lock # NoHolder
    /\ \E p \in paths : task[p] = "lock"
    /\ \E p \in paths : task[p] = "ready"

====
